---------------------------- MODULE Spec2Model ----------------------------
(***************************************************************************)
(* Appointment scheduling engine: availability windows, the interval       *)
(* conflict test, and the appointment lifecycle handlers of                *)
(* app/api/v1/appointments.py and app/api/v1/availability.py.              *)
(*                                                                         *)
(* Time is counted in whole hours since midnight of day 0; day 0 is a      *)
(* Monday.  A datetime t has date t \div 24 and time of day t % 24.        *)
(* Appointment ids are positions in the appointment table (autoincrement,  *)
(* rows are never deleted).                                                *)
(***************************************************************************)
EXTENDS Integers, Sequences, FiniteSets, TLC

VARIABLES
    appointments,   \* table Appointment: sequence of rows, id = index
    availabilities, \* table Availability: sequence of rows, id = index
    users,          \* per user: no_show_count, is_blocked
    now,            \* datetime.utcnow(), in hours
    procs,          \* requests in flight (interleaved handlers)
    probe           \* arguments and results of the pure interval tests

vars == <<appointments, availabilities, users, now, procs, probe>>

---------------------------------------------------------------------------
(* Bounds of the model *)

MaxAppts == 2
MaxWindows == 2
MaxNow == 3
MaxPolicyAppts == 3
NumProcs == 2
MaxProbe == 4
MaxListed == 3
MaxSweepNow == 4

---------------------------------------------------------------------------
(* Values *)

None == -1

HoursPerDay == 24
DaysPerWeek == 7

SCHEDULED == "scheduled"
CANCELLED == "cancelled"
COMPLETED == "completed"
NO_SHOW == "no_show"
AppointmentStatus == {SCHEDULED, CANCELLED, COMPLETED, NO_SHOW}

ADMIN == "admin"
STAFF == "staff"
CLIENT == "client"

Clients == {"c1", "c2"}
StaffIds == {"s1", "s2"}
Admins == {"adm"}
Users == Clients \cup StaffIds \cup Admins

role(u) == IF u \in Admins THEN ADMIN ELSE IF u \in StaffIds THEN STAFF ELSE CLIENT

NoShowThreshold == 3
CutoffHours == 2

\* User.no_show_count and User.is_blocked of a user nobody marked yet
NewUser == [no_show_count |-> 0, is_blocked |-> FALSE]

NoNotes == <<>>

DateOf(t) == t \div HoursPerDay
TimeOf(t) == t % HoursPerDay
WeekdayOf(d) == d % DaysPerWeek

---------------------------------------------------------------------------
(* Interval tests *)

\* as ThreeClauseOverlap, counting an appointment that ends at the candidate's start
ThreeClauseOverlap_touch(es, ee, cs, ce) ==
    \/ (es <= cs /\ ee >= cs)
    \/ (es < ce /\ ee >= ce)
    \/ (es >= cs /\ ee <= ce)

\* the or_(...) of the conflict query of is_staff_available
ThreeClauseOverlap(es, ee, cs, ce) ==
    \/ (es <= cs /\ ee > cs)
    \/ (es < ce /\ ee >= ce)
    \/ (es >= cs /\ ee <= ce)

\* the same or_(...) as written again in reschedule_appointment
RescheduleOverlap(es, ee, cs, ce) ==
    \/ (es <= cs /\ ee > cs)
    \/ (es < ce /\ ee >= ce)
    \/ (es >= cs /\ ee <= ce)

\* as SlotOverlap, seeing only an appointment that holds the start of the slot
SlotOverlap_startInside(es, ee, cs, ce) == es <= cs /\ cs < ee

\* the slot test of get_available_slots
SlotOverlap(es, ee, cs, ce) == ~(ce <= es \/ cs >= ee)

Ids(appts) == 1..Len(appts)

\* as MatchingAvailabilities, a window of the very date taking precedence over the recurring ones
MatchingAvailabilities_precedence(avs, staff_id, d) ==
    IF \E i \in 1..Len(avs) : avs[i].staff_id = staff_id /\ avs[i].specific_date = d
    THEN SelectSeq(avs, LAMBDA w : w.staff_id = staff_id /\ w.specific_date = d)
    ELSE SelectSeq(avs, LAMBDA w :
            w.staff_id = staff_id /\ w.day_of_week = WeekdayOf(d) /\ w.is_recurring)

\* rows selected by the availability query for a staff member and a datetime
MatchingAvailabilities(avs, staff_id, d) ==
    SelectSeq(avs, LAMBDA w:
        /\ w.staff_id = staff_id
        /\ \/ (w.specific_date # None /\ w.specific_date = d)
           \/ (w.day_of_week # None /\ w.day_of_week = WeekdayOf(d) /\ w.is_recurring))

\* as WindowCovers, without the test of the end
WindowCovers_startOnly(w, st, en) == w.start_time <= TimeOf(st)

WindowCovers(w, st, en) == w.start_time <= TimeOf(st) /\ w.end_time >= TimeOf(en)

WithinAvailability(avs, staff_id, st, en) ==
    LET m == MatchingAvailabilities(avs, staff_id, DateOf(st))
    IN \E i \in 1..Len(m) : WindowCovers(m[i], st, en)

\* as OverlappingAppointment, counting appointments of every status
OverlappingAppointment_anyStatus(appts, staff_id, st, en) ==
    \E i \in Ids(appts) :
        /\ appts[i].staff_id = staff_id
        /\ ThreeClauseOverlap(appts[i].start_time, appts[i].end_time, st, en)

OverlappingAppointment(appts, staff_id, st, en) ==
    \E i \in Ids(appts) :
        /\ appts[i].staff_id = staff_id
        /\ appts[i].status = SCHEDULED
        /\ ThreeClauseOverlap(appts[i].start_time, appts[i].end_time, st, en)

is_staff_available(appts, avs, staff_id, st, en) ==
    IF OverlappingAppointment(appts, staff_id, st, en) THEN FALSE
    ELSE WithinAvailability(avs, staff_id, st, en)

---------------------------------------------------------------------------
(* Handlers: each yields the response and the tables after the request *)

Resp(op, code, detail) == [op |-> op, code |-> code, detail |-> detail]

Result(r, appts, us) == [resp |-> r, appointments |-> appts, users |-> us]

\* as ClientBlocked, never blocking
ClientBlocked_never(us, u) == FALSE

\* current_user.is_blocked
ClientBlocked(us, u) == us[u].is_blocked

NewAppointment(u, staff_id, st, en, notes) ==
    [start_time |-> st, end_time |-> en, notes |-> notes, client_id |-> u,
     staff_id |-> staff_id, status |-> SCHEDULED]

create_appointment(appts, avs, us, u, staff_id, st, en, notes) ==
    IF ClientBlocked(us, u)
    THEN Result(Resp("create", 403, "blocked"), appts, us)
    ELSE IF ~is_staff_available(appts, avs, staff_id, st, en)
    THEN Result(Resp("create", 400, "staff unavailable"), appts, us)
    ELSE Result(Resp("create", 200, "ok"),
                Append(appts, NewAppointment(u, staff_id, st, en, notes)), us)

\* permission check shared by update, reschedule (and the .ics export)
IsParty(a, u) == role(u) = ADMIN \/ a.client_id = u \/ a.staff_id = u

\* as WithinCutoff, rejecting also at exactly two hours before the start
WithinCutoff_inclusive(a, t) == a.start_time - t <= CutoffHours

\* db_obj.start_time - datetime.utcnow() < timedelta(hours=2)
WithinCutoff(a, t) == a.start_time - t < CutoffHours

PatchFields == {"start_time", "end_time", "notes", "status"}

\* as ApplyPatch, moving the end with a new start when the patch has no end
ApplyPatch_endFollows(a, patch) ==
    [f \in DOMAIN a |->
        IF f \in DOMAIN patch THEN patch[f]
        ELSE IF f = "end_time" /\ "start_time" \in DOMAIN patch
        THEN patch.start_time + (a.end_time - a.start_time)
        ELSE a[f]]

\* appointment_in.dict(exclude_unset=True), then setattr for each field
ApplyPatch(a, patch) ==
    [f \in DOMAIN a |-> IF f \in DOMAIN patch THEN patch[f] ELSE a[f]]

\* as update_appointment, with the checks of reschedule on the patched interval
update_appointment_validated(appts, us, u, id, patch, t) ==
    IF id \notin Ids(appts)
    THEN Result(Resp("update", 404, "not found"), appts, us)
    ELSE IF ~IsParty(appts[id], u)
    THEN Result(Resp("update", 403, "permissions"), appts, us)
    ELSE IF WithinCutoff(appts[id], t)
    THEN Result(Resp("update", 400, "cutoff"), appts, us)
    ELSE IF \E i \in Ids(appts) \ {id} :
               /\ appts[i].staff_id = appts[id].staff_id
               /\ appts[i].status = SCHEDULED
               /\ ThreeClauseOverlap(appts[i].start_time, appts[i].end_time,
                                     ApplyPatch(appts[id], patch).start_time,
                                     ApplyPatch(appts[id], patch).end_time)
    THEN Result(Resp("update", 400, "staff unavailable"), appts, us)
    ELSE Result(Resp("update", 200, "ok"),
                [appts EXCEPT ![id] = ApplyPatch(appts[id], patch)], us)

update_appointment(appts, us, u, id, patch, t) ==
    IF id \notin Ids(appts)
    THEN Result(Resp("update", 404, "not found"), appts, us)
    ELSE IF ~IsParty(appts[id], u)
    THEN Result(Resp("update", 403, "permissions"), appts, us)
    ELSE IF WithinCutoff(appts[id], t)
    THEN Result(Resp("update", 400, "cutoff"), appts, us)
    ELSE Result(Resp("update", 200, "ok"),
                [appts EXCEPT ![id] = ApplyPatch(appts[id], patch)], us)

\* as RescheduleConflict, without Appointment.id != id
RescheduleConflict_self(appts, id, st, en) ==
    \E i \in Ids(appts) :
        /\ appts[i].staff_id = appts[id].staff_id
        /\ appts[i].status = SCHEDULED
        /\ RescheduleOverlap(appts[i].start_time, appts[i].end_time, st, en)

\* the conflict query of reschedule_appointment (Appointment.id != id)
RescheduleConflict(appts, id, st, en) ==
    \E i \in Ids(appts) :
        /\ appts[i].staff_id = appts[id].staff_id
        /\ i # id
        /\ appts[i].status = SCHEDULED
        /\ RescheduleOverlap(appts[i].start_time, appts[i].end_time, st, en)

\* as RescheduleWithinAvailability, taking every time as available
RescheduleWithinAvailability_any(avs, staff_id, st, en) == TRUE

\* the availability loop of reschedule_appointment
RescheduleWithinAvailability(avs, staff_id, st, en) ==
    LET m == MatchingAvailabilities(avs, staff_id, DateOf(st))
    IN \E i \in 1..Len(m) : m[i].start_time <= TimeOf(st) /\ m[i].end_time >= TimeOf(en)

\* reason is <<>> when the request gives none
RescheduledNotes(notes, reason) ==
    IF reason # <<>> THEN notes \o <<"Rescheduled">> \o reason ELSE notes

\* as Reschedulable, whatever the status
Reschedulable_always(a) == TRUE

\* db_obj.status != AppointmentStatus.SCHEDULED rejects
Reschedulable(a) == a.status = SCHEDULED

reschedule_appointment(appts, avs, us, u, id, st, en, reason, t) ==
    IF id \notin Ids(appts)
    THEN Result(Resp("reschedule", 404, "not found"), appts, us)
    ELSE IF ~IsParty(appts[id], u)
    THEN Result(Resp("reschedule", 403, "permissions"), appts, us)
    ELSE IF ~Reschedulable(appts[id])
    THEN Result(Resp("reschedule", 400, "status"), appts, us)
    ELSE IF WithinCutoff(appts[id], t)
    THEN Result(Resp("reschedule", 400, "cutoff"), appts, us)
    ELSE IF RescheduleConflict(appts, id, st, en)
    THEN Result(Resp("reschedule", 400, "staff unavailable"), appts, us)
    ELSE IF ~RescheduleWithinAvailability(avs, appts[id].staff_id, st, en)
    THEN Result(Resp("reschedule", 400, "outside availability"), appts, us)
    ELSE Result(Resp("reschedule", 200, "ok"),
                [appts EXCEPT ![id] = [@ EXCEPT !.start_time = st, !.end_time = en,
                                                !.notes = RescheduledNotes(@, reason)]],
                us)

\* check_role([UserRole.ADMIN, UserRole.STAFF])
HasMarkRole(u) == role(u) \in {ADMIN, STAFF}

\* only staff assigned to this appointment or admin
MayMark(a, u) == role(u) = ADMIN \/ a.staff_id = u

\* as IsFuture, taking every appointment as started
IsFuture_never(a, t) == FALSE

\* db_obj.start_time > datetime.utcnow()
IsFuture(a, t) == a.start_time > t

\* as IncrementNoShow, blocking only past the threshold
IncrementNoShow_late(rec) ==
    LET n == rec.no_show_count + 1
    IN [no_show_count |-> n,
        is_blocked |-> IF n > NoShowThreshold THEN TRUE ELSE rec.is_blocked]

\* as IncrementNoShow, starting the count afresh once the client is blocked
IncrementNoShow_reset(rec) ==
    LET n == rec.no_show_count + 1
    IN IF n >= NoShowThreshold THEN [no_show_count |-> 0, is_blocked |-> TRUE]
       ELSE [no_show_count |-> n, is_blocked |-> rec.is_blocked]

\* client.no_show_count += 1, then the blocking policy
IncrementNoShow(rec) ==
    LET n == rec.no_show_count + 1
    IN [no_show_count |-> n,
        is_blocked |-> IF n >= NoShowThreshold THEN TRUE ELSE rec.is_blocked]

\* as mark_appointment_no_show, counting the no-show before the test of the start
mark_appointment_no_show_partial(appts, us, u, id, t) ==
    IF ~HasMarkRole(u)
    THEN Result(Resp("mark_no_show", 403, "privileges"), appts, us)
    ELSE IF id \notin Ids(appts)
    THEN Result(Resp("mark_no_show", 404, "not found"), appts, us)
    ELSE IF ~MayMark(appts[id], u)
    THEN Result(Resp("mark_no_show", 403, "permissions"), appts, us)
    ELSE IF appts[id].status # SCHEDULED
    THEN Result(Resp("mark_no_show", 400, "status"), appts, us)
    ELSE IF IsFuture(appts[id], t)
    THEN Result(Resp("mark_no_show", 400, "future"), appts,
                [us EXCEPT ![appts[id].client_id] = IncrementNoShow(@)])
    ELSE Result(Resp("mark_no_show", 200, "ok"),
                [appts EXCEPT ![id].status = NO_SHOW],
                [us EXCEPT ![appts[id].client_id] = IncrementNoShow(@)])

mark_appointment_no_show(appts, us, u, id, t) ==
    IF ~HasMarkRole(u)
    THEN Result(Resp("mark_no_show", 403, "privileges"), appts, us)
    ELSE IF id \notin Ids(appts)
    THEN Result(Resp("mark_no_show", 404, "not found"), appts, us)
    ELSE IF ~MayMark(appts[id], u)
    THEN Result(Resp("mark_no_show", 403, "permissions"), appts, us)
    ELSE IF appts[id].status # SCHEDULED
    THEN Result(Resp("mark_no_show", 400, "status"), appts, us)
    ELSE IF IsFuture(appts[id], t)
    THEN Result(Resp("mark_no_show", 400, "future"), appts, us)
    ELSE Result(Resp("mark_no_show", 200, "ok"),
                [appts EXCEPT ![id].status = NO_SHOW],
                [us EXCEPT ![appts[id].client_id] = IncrementNoShow(@)])

mark_appointment_completed(appts, us, u, id, t) ==
    IF ~HasMarkRole(u)
    THEN Result(Resp("mark_completed", 403, "privileges"), appts, us)
    ELSE IF id \notin Ids(appts)
    THEN Result(Resp("mark_completed", 404, "not found"), appts, us)
    ELSE IF ~MayMark(appts[id], u)
    THEN Result(Resp("mark_completed", 403, "permissions"), appts, us)
    ELSE IF appts[id].status # SCHEDULED
    THEN Result(Resp("mark_completed", 400, "status"), appts, us)
    ELSE IF IsFuture(appts[id], t)
    THEN Result(Resp("mark_completed", 400, "future"), appts, us)
    ELSE Result(Resp("mark_completed", 200, "ok"),
                [appts EXCEPT ![id].status = COMPLETED], us)

\* the availability query of get_available_slots
SlotAvailabilities(avs, staff_id, d) ==
    SelectSeq(avs, LAMBDA w:
        /\ w.staff_id = staff_id
        /\ \/ w.specific_date = d
           \/ (w.day_of_week = WeekdayOf(d) /\ w.is_recurring))

\* as BookedAppointments, without the test of the status
BookedAppointments_anyStatus(appts, staff_id, d) ==
    SelectSeq(appts, LAMBDA a:
        /\ a.staff_id = staff_id
        /\ a.start_time < (d + 1) * HoursPerDay
        /\ a.end_time > d * HoursPerDay)

\* booked_appointments: SCHEDULED rows of the staff member that touch the day
\* (start before 23:59:59.999999, end after 00:00)
BookedAppointments(appts, staff_id, d) ==
    SelectSeq(appts, LAMBDA a:
        /\ a.staff_id = staff_id
        /\ a.status = SCHEDULED
        /\ a.start_time < (d + 1) * HoursPerDay
        /\ a.end_time > d * HoursPerDay)

TimeSlot(st, en) == [start_time |-> st, end_time |-> en]

\* as SlotIsAvailable, looking at the first booked appointment only
SlotIsAvailable_firstOnly(booked, cur, slot_end) ==
    booked = <<>> \/ ~SlotOverlap(booked[1].start_time, booked[1].end_time, cur, slot_end)

\* the inner for loop over booked_appointments
SlotIsAvailable(booked, cur, slot_end) ==
    \A i \in 1..Len(booked) :
        ~SlotOverlap(booked[i].start_time, booked[i].end_time, cur, slot_end)

\* as WindowSlots, leaving out a slot that ends exactly at the end of the window
RECURSIVE WindowSlots_strict(_, _, _, _)
WindowSlots_strict(booked, cur, end, dur) ==
    IF cur + dur < end
    THEN (IF SlotIsAvailable(booked, cur, cur + dur)
          THEN <<TimeSlot(cur, cur + dur)>> ELSE <<>>)
         \o WindowSlots_strict(booked, cur + dur, end, dur)
    ELSE <<>>

\* the while loop over one window, from current_time on
RECURSIVE WindowSlots(_, _, _, _)
WindowSlots(booked, cur, end, dur) ==
    IF cur + dur <= end
    THEN (IF SlotIsAvailable(booked, cur, cur + dur)
          THEN <<TimeSlot(cur, cur + dur)>> ELSE <<>>)
         \o WindowSlots(booked, cur + dur, end, dur)
    ELSE <<>>

\* the for loop over the windows, appending to available_slots
RECURSIVE SlotsOfWindows(_, _, _, _)
SlotsOfWindows(ws, booked, d, dur) ==
    IF ws = <<>> THEN <<>>
    ELSE WindowSlots(booked, d * HoursPerDay + Head(ws).start_time,
                     d * HoursPerDay + Head(ws).end_time, dur)
         \o SlotsOfWindows(Tail(ws), booked, d, dur)

\* as get_available_slots, a slot being listed once however many windows give it
get_available_slots_once(appts, avs, staff_id, d, dur) ==
    LET all == SlotsOfWindows(SlotAvailabilities(avs, staff_id, d),
                              BookedAppointments(appts, staff_id, d), d, dur)
        first == { k \in 1..Len(all) : \A n \in 1..(k - 1) : all[n] # all[k] }
        rank(k) == Cardinality({ n \in first : n <= k })
    IN [m \in 1..Cardinality(first) |-> all[CHOOSE k \in first : rank(k) = m]]

\* the slots of the response; dur is slot_duration, here in hours
get_available_slots(appts, avs, staff_id, d, dur) ==
    IF SlotAvailabilities(avs, staff_id, d) = <<>> THEN <<>>
    ELSE SlotsOfWindows(SlotAvailabilities(avs, staff_id, d),
                        BookedAppointments(appts, staff_id, d), d, dur)


\* as VisibleIds, applying no filter for a staff caller
VisibleIds_staffAll(appts, u) ==
    SelectSeq([i \in 1..Len(appts) |-> i], LAMBDA i :
        role(u) = CLIENT => appts[i].client_id = u)

\* the query of read_appointments after the role filter, rows named by id
VisibleIds(appts, u) ==
    SelectSeq([i \in 1..Len(appts) |-> i], LAMBDA i :
        IF role(u) = CLIENT THEN appts[i].client_id = u
        ELSE IF role(u) = STAFF THEN appts[i].staff_id = u
        ELSE TRUE)

\* query.offset(skip).limit(limit)
read_appointments(appts, u, skip, limit) ==
    SubSeq(VisibleIds(appts, u), skip + 1,
           IF skip + limit < Len(VisibleIds(appts, u)) THEN skip + limit
           ELSE Len(VisibleIds(appts, u)))

---------------------------------------------------------------------------
(* State machine *)

Procs == 1..NumProcs

\* a request in flight: what its handler read, and the requests in flight when it read
Req(pc, op, id, client, staff_id, st, en, rd, with) ==
    [pc |-> pc, op |-> op, id |-> id, client_id |-> client, staff_id |-> staff_id,
     start_time |-> st, end_time |-> en, read |-> rd, with |-> with]

Idle == Req("idle", "none", 0, "", "", 0, 0, NewUser, {})

Rejected(op) == Req("rejected", op, 0, "", "", 0, 0, NewUser, {})

InFlight == {q \in Procs : procs[q].pc = "commit"}

NoProbe == [done |-> FALSE]

InitTables ==
    /\ appointments = <<>>
    /\ availabilities = <<>>
    /\ users = [u \in Users |-> NewUser]
    /\ now = 0
    /\ procs = [p \in Procs |-> Idle]

Init == InitTables /\ probe = NoProbe

\* as Commit, deleting the rows of cancelled appointments
Commit_dropCancelled(res) ==
    /\ appointments' = SelectSeq(res.appointments, LAMBDA a : a.status # CANCELLED)
    /\ users' = res.users

\* session.commit() of a handler that ran to completion
Commit(res) ==
    /\ appointments' = res.appointments
    /\ users' = res.users

CreateAvailability(u, w) ==
    /\ role(u) \in {ADMIN, STAFF}
    /\ role(u) = ADMIN \/ w.staff_id = u
    /\ availabilities' = Append(availabilities, w)
    /\ UNCHANGED <<appointments, users, now, procs, probe>>

CreateAppointment(u, staff_id, st, en, notes) ==
    /\ Commit(create_appointment(appointments, availabilities, users, u, staff_id, st, en, notes))
    /\ UNCHANGED <<availabilities, now, procs, probe>>

UpdateAppointment(u, id, patch) ==
    /\ Commit(update_appointment(appointments, users, u, id, patch, now))
    /\ UNCHANGED <<availabilities, now, procs, probe>>

RescheduleAppointment(u, id, st, en, reason) ==
    /\ Commit(reschedule_appointment(appointments, availabilities, users, u, id, st, en, reason, now))
    /\ UNCHANGED <<availabilities, now, procs, probe>>

MarkNoShow(u, id) ==
    /\ Commit(mark_appointment_no_show(appointments, users, u, id, now))
    /\ UNCHANGED <<availabilities, now, procs, probe>>

MarkCompleted(u, id) ==
    /\ Commit(mark_appointment_completed(appointments, users, u, id, now))
    /\ UNCHANGED <<availabilities, now, procs, probe>>

Tick ==
    /\ now < MaxNow
    /\ now' = now + 1
    /\ UNCHANGED <<appointments, availabilities, users, procs, probe>>

---------------------------------------------------------------------------
(* Handlers of requests served at the same time: the queries of a handler
   are one step, its session.commit() is a later step *)

CheckCreate(p, u, staff_id, st, en) ==
    /\ procs[p].pc = "idle"
    /\ procs' = [procs EXCEPT ![p] =
          IF create_appointment(appointments, availabilities, users,
                                u, staff_id, st, en, NoNotes).resp.code = 200
          THEN Req("commit", "create", 0, u, staff_id, st, en, users[u], InFlight)
          ELSE Rejected("create")]
    /\ UNCHANGED <<appointments, availabilities, users, now, probe>>

CommitCreate(p) ==
    /\ procs[p].pc = "commit" /\ procs[p].op = "create"
    /\ appointments' = Append(appointments,
          NewAppointment(procs[p].client_id, procs[p].staff_id,
                         procs[p].start_time, procs[p].end_time, NoNotes))
    /\ procs' = [procs EXCEPT ![p].pc = "committed"]
    /\ UNCHANGED <<availabilities, users, now, probe>>

CheckReschedule(p, u, id, st, en) ==
    /\ procs[p].pc = "idle"
    /\ procs' = [procs EXCEPT ![p] =
          IF reschedule_appointment(appointments, availabilities, users,
                                    u, id, st, en, <<>>, now).resp.code = 200
          THEN Req("commit", "reschedule", id, appointments[id].client_id,
                   appointments[id].staff_id, st, en, users[u], InFlight)
          ELSE Rejected("reschedule")]
    /\ UNCHANGED <<appointments, availabilities, users, now, probe>>

CommitReschedule(p) ==
    /\ procs[p].pc = "commit" /\ procs[p].op = "reschedule"
    /\ appointments' = [appointments EXCEPT
          ![procs[p].id].start_time = procs[p].start_time,
          ![procs[p].id].end_time = procs[p].end_time]
    /\ procs' = [procs EXCEPT ![p].pc = "committed"]
    /\ UNCHANGED <<availabilities, users, now, probe>>

ReadMarkNoShow(p, u, id) ==
    /\ procs[p].pc = "idle"
    /\ procs' = [procs EXCEPT ![p] =
          IF mark_appointment_no_show(appointments, users, u, id, now).resp.code = 200
          THEN Req("commit", "mark_no_show", id, appointments[id].client_id,
                   appointments[id].staff_id, appointments[id].start_time,
                   appointments[id].end_time, users[appointments[id].client_id], InFlight)
          ELSE Rejected("mark_no_show")]
    /\ UNCHANGED <<appointments, availabilities, users, now, probe>>

\* the UPDATEs of the commit: the status, the count computed from the row that
\* was read, and is_blocked only when the handler set it
CommitMarkNoShow(p) ==
    /\ procs[p].pc = "commit" /\ procs[p].op = "mark_no_show"
    /\ appointments' = [appointments EXCEPT ![procs[p].id].status = NO_SHOW]
    /\ users' = [users EXCEPT ![procs[p].client_id] =
          [no_show_count |-> IncrementNoShow(procs[p].read).no_show_count,
           is_blocked |-> IncrementNoShow(procs[p].read).is_blocked \/ @.is_blocked]]
    /\ procs' = [procs EXCEPT ![p].pc = "committed"]
    /\ UNCHANGED <<availabilities, now, probe>>

ReadMarkCompleted(p, u, id) ==
    /\ procs[p].pc = "idle"
    /\ procs' = [procs EXCEPT ![p] =
          IF mark_appointment_completed(appointments, users, u, id, now).resp.code = 200
          THEN Req("commit", "mark_completed", id, appointments[id].client_id,
                   appointments[id].staff_id, appointments[id].start_time,
                   appointments[id].end_time, users[appointments[id].client_id], InFlight)
          ELSE Rejected("mark_completed")]
    /\ UNCHANGED <<appointments, availabilities, users, now, probe>>

CommitMarkCompleted(p) ==
    /\ procs[p].pc = "commit" /\ procs[p].op = "mark_completed"
    /\ appointments' = [appointments EXCEPT ![procs[p].id].status = COMPLETED]
    /\ procs' = [procs EXCEPT ![p].pc = "committed"]
    /\ UNCHANGED <<availabilities, users, now, probe>>

\* the first query of mark_appointment_no_show and its checks: the row of the
\* appointment is read, the counter of the client is not read yet
CheckMarkNoShow(p, u, id) ==
    /\ procs[p].pc = "idle"
    /\ procs' = [procs EXCEPT ![p] =
          IF mark_appointment_no_show(appointments, users, u, id, now).resp.code = 200
          THEN Req("checked", "mark_no_show", id, appointments[id].client_id,
                   appointments[id].staff_id, appointments[id].start_time,
                   appointments[id].end_time, NewUser, InFlight)
          ELSE Rejected("mark_no_show")]
    /\ UNCHANGED <<appointments, availabilities, users, now, probe>>

\* session.get(User, db_obj.client_id): the row of the client as it is now
ReadCounter(p) ==
    /\ procs[p].pc = "checked" /\ procs[p].op = "mark_no_show"
    /\ procs' = [procs EXCEPT ![p].pc = "commit",
                              ![p].read = users[procs[p].client_id]]
    /\ UNCHANGED <<appointments, availabilities, users, now, probe>>

---------------------------------------------------------------------------
(* The interval tests on their own *)

EvalOverlap ==
    /\ ~probe.done
    /\ probe' = [probe EXCEPT
          !.done = TRUE,
          !.three = ThreeClauseOverlap(probe.es, probe.ee, probe.cs, probe.ce),
          !.resched = RescheduleOverlap(probe.es, probe.ee, probe.cs, probe.ce),
          !.slot = SlotOverlap(probe.es, probe.ee, probe.cs, probe.ce)]
    /\ UNCHANGED <<appointments, availabilities, users, now, procs>>

---------------------------------------------------------------------------
(* The lifecycle, one request at a time *)

Window(s, dow, date, st, en, rec) ==
    [staff_id |-> s, day_of_week |-> dow, specific_date |-> date,
     start_time |-> st, end_time |-> en, is_recurring |-> rec]

Booking(u, s, st, en) == [u |-> u, staff_id |-> s, start_time |-> st, end_time |-> en]

Windows ==
    { Window("s1", 0, None, 2, 4, TRUE),
      Window("s2", 0, None, 2, 4, TRUE),
      Window("s1", None, 0, 2, 3, FALSE) }

Bookings ==
    { Booking("c1", "s1", 2, 3), Booking("c1", "s1", 3, 4), Booking("c1", "s1", 2, 4),
      Booking("c1", "s1", 4, 3), Booking("c1", "s2", 2, 3), Booking("c2", "s1", 3, 4) }

Moves == { <<2, 3>>, <<3, 4>>, <<2, 4>> }

Patches ==
    { [status |-> x] : x \in AppointmentStatus }
    \cup { [start_time |-> 2], [start_time |-> 3, end_time |-> 4] }

Lifecycle(ws, bs, ps, ms, maxAppts) ==
    \/ \E u \in Users, w \in ws :
          Len(availabilities) < MaxWindows /\ CreateAvailability(u, w)
    \/ \E b \in bs :
          /\ Len(appointments) < maxAppts
          /\ CreateAppointment(b.u, b.staff_id, b.start_time, b.end_time, NoNotes)
    \/ \E u \in Users, id \in 1..maxAppts, patch \in ps :
          UpdateAppointment(u, id, patch)
    \/ \E u \in Users, id \in 1..maxAppts, m \in ms :
          RescheduleAppointment(u, id, m[1], m[2], <<>>)
    \/ \E u \in Users, id \in 1..maxAppts : MarkNoShow(u, id)
    \/ \E u \in Users, id \in 1..maxAppts : MarkCompleted(u, id)
    \/ Tick

Next == Lifecycle(Windows, Bookings, Patches, Moves, MaxAppts)

Spec == Init /\ [][Next]_vars

(* The no-show policy: one staff member, enough bookings to reach the threshold *)

PolicyWindows == { Window("s1", 0, None, 2, 4, TRUE) }

PolicyBookings == { Booking("c1", "s1", 2, 3), Booking("c1", "s1", 3, 4), Booking("c2", "s1", 2, 3) }

PolicyPatches == { [status |-> CANCELLED], [status |-> SCHEDULED] }

PolicyMoves == { <<3, 4>> }

NextPolicy == Lifecycle(PolicyWindows, PolicyBookings, PolicyPatches, PolicyMoves, MaxPolicyAppts)

SpecPolicy == Init /\ [][NextPolicy]_vars

(* Bookings served at the same time *)

RaceWindows == { Window("s1", 0, None, 2, 4, TRUE) }

RaceBookings == { Booking("c1", "s1", 2, 3), Booking("c1", "s1", 3, 4), Booking("c2", "s1", 2, 4) }

NextBooking ==
    \/ \E w \in RaceWindows :
          Len(availabilities) < MaxWindows /\ CreateAvailability(w.staff_id, w)
    \/ \E b \in RaceBookings :
          /\ Len(appointments) < MaxAppts
          /\ CreateAppointment(b.u, b.staff_id, b.start_time, b.end_time, NoNotes)
    \/ \E p \in Procs, b \in RaceBookings :
          CheckCreate(p, b.u, b.staff_id, b.start_time, b.end_time)
    \/ \E p \in Procs : CommitCreate(p)
    \/ \E p \in Procs, id \in 1..MaxAppts, m \in Moves :
          CheckReschedule(p, "adm", id, m[1], m[2])
    \/ \E p \in Procs : CommitReschedule(p)

SpecBooking == Init /\ [][NextBooking]_vars

(* No-show and completion markings served at the same time *)

NextMarking ==
    \/ \E w \in RaceWindows :
          Len(availabilities) < MaxWindows /\ CreateAvailability(w.staff_id, w)
    \/ \E b \in RaceBookings :
          /\ Len(appointments) < MaxAppts
          /\ CreateAppointment(b.u, b.staff_id, b.start_time, b.end_time, NoNotes)
    \/ Tick
    \/ \E p \in Procs, u \in Users, id \in 1..MaxAppts : ReadMarkNoShow(p, u, id)
    \/ \E p \in Procs : CommitMarkNoShow(p)
    \/ \E p \in Procs, u \in Users, id \in 1..MaxAppts : ReadMarkCompleted(p, u, id)
    \/ \E p \in Procs : CommitMarkCompleted(p)

SpecMarking == Init /\ [][NextMarking]_vars

(* Markings of one appointment served at the same time, the status read, the
   counter read and the commit of a no-show marking being three steps *)

NextSameMark ==
    \/ \E w \in RaceWindows :
          Len(availabilities) < MaxWindows /\ CreateAvailability(w.staff_id, w)
    \/ \E b \in RaceBookings :
          /\ Len(appointments) < MaxAppts
          /\ CreateAppointment(b.u, b.staff_id, b.start_time, b.end_time, NoNotes)
    \/ Tick
    \/ \E p \in Procs, u \in Users, id \in 1..MaxAppts : CheckMarkNoShow(p, u, id)
    \/ \E p \in Procs : ReadCounter(p)
    \/ \E p \in Procs : CommitMarkNoShow(p)
    \/ \E p \in Procs, u \in Users, id \in 1..MaxAppts : ReadMarkCompleted(p, u, id)
    \/ \E p \in Procs : CommitMarkCompleted(p)

SpecSameMark == Init /\ [][NextSameMark]_vars

(* The interval tests on every pair of intervals over 0..MaxProbe *)

InitOverlap ==
    /\ InitTables
    /\ probe \in { [done |-> FALSE, cs |-> a, ce |-> b, es |-> c, ee |-> d,
                     three |-> FALSE, resched |-> FALSE, slot |-> FALSE] :
                    a \in 0..MaxProbe, b \in 0..MaxProbe, c \in 0..MaxProbe, d \in 0..MaxProbe }

NextOverlap == EvalOverlap

SpecOverlap == InitOverlap /\ [][NextOverlap]_vars

---------------------------------------------------------------------------
(* The free slots of a staff member: the last query and its response *)

GetAvailableSlots(staff_id, d, dur) ==
    /\ probe' = [done |-> TRUE, staff_id |-> staff_id, date |-> d, slot_duration |-> dur,
                 slots |-> get_available_slots(appointments, availabilities, staff_id, d, dur)]
    /\ UNCHANGED <<appointments, availabilities, users, now, procs>>

SlotWindows ==
    { Window("s1", 0, None, 2, 5, TRUE),
      Window("s1", None, 0, 3, 5, FALSE),
      Window("s2", 0, None, 9, 17, TRUE) }

SlotBookings ==
    { Booking("c1", "s1", 3, 4), Booking("c1", "s1", 2, 4), Booking("c2", "s1", 4, 5),
      Booking("c1", "s1", 4, 3), Booking("c2", "s2", 10, 11) }

SlotPatches == { [status |-> CANCELLED] }

SlotDates == {0, 1, 7}

SlotDurations == {1, 2, 3}

NextSlots ==
    \/ \E w \in SlotWindows :
          Len(availabilities) < MaxWindows /\ CreateAvailability(w.staff_id, w)
    \/ \E b \in SlotBookings :
          /\ Len(appointments) < MaxAppts
          /\ CreateAppointment(b.u, b.staff_id, b.start_time, b.end_time, NoNotes)
    \/ \E id \in 1..MaxAppts, patch \in SlotPatches : UpdateAppointment("adm", id, patch)
    \/ \E s \in StaffIds, d \in SlotDates, dur \in SlotDurations : GetAvailableSlots(s, d, dur)

SpecSlots == Init /\ [][NextSlots]_vars

(* The appointment list: the last query and its response *)

ReadAppointments(u, skip, limit) ==
    /\ probe' = [done |-> TRUE, caller |-> u, skip |-> skip, limit |-> limit,
                 rows |-> read_appointments(appointments, u, skip, limit)]
    /\ UNCHANGED <<appointments, availabilities, users, now, procs>>

ListWindows == { Window("s1", 0, None, 2, 4, TRUE), Window("s2", 0, None, 2, 4, TRUE) }

ListBookings ==
    { Booking("c1", "s1", 2, 3), Booking("c2", "s1", 3, 4),
      Booking("c1", "s2", 2, 3), Booking("s1", "s2", 3, 4) }

ListPages == { <<0, 100>>, <<1, 1>> }

NextList ==
    \/ \E w \in ListWindows :
          Len(availabilities) < MaxWindows /\ CreateAvailability(w.staff_id, w)
    \/ \E b \in ListBookings :
          /\ Len(appointments) < MaxListed
          /\ CreateAppointment(b.u, b.staff_id, b.start_time, b.end_time, NoNotes)
    \/ \E u \in Users, pg \in ListPages : ReadAppointments(u, pg[1], pg[2])

SpecList == Init /\ [][NextList]_vars

---------------------------------------------------------------------------
(* The reminder job.  Its interval trigger fires once an hour, at a fixed
   offset from the hour; the clock of this part counts half hours, so that
   the job fires either on the hour (phase 0) or at half past (phase 1).
   probe keeps, for each appointment, the half hour since which its row has
   been SCHEDULED with the start it has now, and whether a run of the job
   has selected it since. *)

\* as send_appointment_reminders, with reminder_start = now + 25 hours
send_appointment_reminders_late(appts, halves) ==
    { id \in Ids(appts) : /\ appts[id].status = SCHEDULED
                          /\ 2 * appts[id].start_time >= halves + 2 * 25
                          /\ 2 * appts[id].start_time <= halves + 2 * 25 }

\* the rows selected by a run of the job at utcnow = halves half hours
send_appointment_reminders(appts, halves) ==
    { id \in Ids(appts) : /\ appts[id].status = SCHEDULED
                          /\ 2 * appts[id].start_time >= halves + 2 * 23
                          /\ 2 * appts[id].start_time <= halves + 2 * 25 }

\* datetime.utcnow() in half hours
utcnow == 2 * now + probe.half

InitSweep ==
    /\ InitTables
    /\ probe \in { [half |-> 0, phase |-> ph, since |-> [id \in 1..MaxAppts |-> None],
                    reminded |-> {}, selected |-> {}] : ph \in {0, 1} }

\* a row of appts that is SCHEDULED and was so, with the same start, before
Stable(appts, id) ==
    /\ id \in Ids(appts) /\ appts[id].status = SCHEDULED
    /\ id \in Ids(appointments) /\ appointments[id].status = SCHEDULED
    /\ appointments[id].start_time = appts[id].start_time

\* the history of the rows once a request has committed the table appts
Observe(appts) ==
    [probe EXCEPT
        !.since = [id \in 1..MaxAppts |->
                      IF Stable(appts, id) THEN probe.since[id]
                      ELSE IF id \in Ids(appts) /\ appts[id].status = SCHEDULED
                      THEN utcnow
                      ELSE None],
        !.reminded = { id \in probe.reminded : Stable(appts, id) },
        !.selected = {}]

BookAhead(u, staff_id, st, en) ==
    LET res == create_appointment(appointments, availabilities, users,
                                  u, staff_id, st, en, NoNotes)
    IN  /\ Commit(res)
        /\ probe' = Observe(res.appointments)
        /\ UNCHANGED <<availabilities, now, procs>>

PatchAhead(u, id, patch) ==
    LET res == update_appointment(appointments, users, u, id, patch, now)
    IN  /\ Commit(res)
        /\ probe' = Observe(res.appointments)
        /\ UNCHANGED <<availabilities, now, procs>>

\* half an hour passes and the trigger is not due
HalfHourPasses ==
    /\ 1 - probe.half # probe.phase
    /\ probe.half = 1 => now < MaxSweepNow
    /\ now' = now + probe.half
    /\ probe' = [probe EXCEPT !.half = 1 - @, !.selected = {}]
    /\ UNCHANGED <<appointments, availabilities, users, procs>>

\* half an hour passes, the trigger is due and the job runs
SendAppointmentReminders ==
    /\ 1 - probe.half = probe.phase
    /\ probe.half = 1 => now < MaxSweepNow
    /\ now' = now + probe.half
    /\ probe' = [probe EXCEPT
          !.half = 1 - @,
          !.selected = send_appointment_reminders(appointments, utcnow + 1),
          !.reminded = @ \cup send_appointment_reminders(appointments, utcnow + 1)]
    /\ UNCHANGED <<appointments, availabilities, users, procs>>

SweepWindows == { Window("s1", 1, None, 1, 4, TRUE) }

SweepBookings ==
    { Booking("c1", "s1", HoursPerDay + 1, HoursPerDay + 2),
      Booking("c2", "s1", HoursPerDay + 2, HoursPerDay + 3) }

SweepPatches ==
    { [status |-> CANCELLED], [status |-> SCHEDULED],
      [start_time |-> HoursPerDay + 3, end_time |-> HoursPerDay + 4] }

NextSweep ==
    \/ \E w \in SweepWindows :
          Len(availabilities) < MaxWindows /\ CreateAvailability(w.staff_id, w)
    \/ \E b \in SweepBookings :
          /\ Len(appointments) < MaxAppts
          /\ BookAhead(b.u, b.staff_id, b.start_time, b.end_time)
    \/ \E id \in 1..MaxAppts, patch \in SweepPatches : PatchAhead("adm", id, patch)
    \/ HalfHourPasses
    \/ SendAppointmentReminders

SpecSweep == InitSweep /\ [][NextSweep]_vars

---------------------------------------------------------------------------
(* Requests the handlers are evaluated on in every reachable state *)

Times == {1, 2, 3, 4, 5, HoursPerDay + 3}

A(id) == appointments[id]

Created(u, staff_id, st, en) ==
    create_appointment(appointments, availabilities, users, u, staff_id, st, en, NoNotes)

---------------------------------------------------------------------------
(* C1: for every staff member, any two distinct SCHEDULED appointments do
   not overlap: never A.start < B.end and B.start < A.end. *)
C1_NoDoubleBooking ==
    \A i, j \in Ids(appointments) :
        (i # j /\ A(i).staff_id = A(j).staff_id
               /\ A(i).status = SCHEDULED /\ A(j).status = SCHEDULED)
        => ~(A(i).start_time < A(j).end_time /\ A(j).start_time < A(i).end_time)

\* p and q were in flight together: one ran its queries before the other committed
C2_Concurrent(p, q) == q \in procs[p].with \/ p \in procs[q].with

C2_Booking(p) == procs[p].op \in {"create", "reschedule"}

(* C2: of two booking attempts (create or reschedule) for the same staff
   member with overlapping target intervals that are served concurrently,
   at most one commits. *)
C2_AtMostOneCommits ==
    \A p, q \in Procs :
        (/\ p # q /\ C2_Booking(p) /\ C2_Booking(q)
         /\ C2_Concurrent(p, q)
         /\ procs[p].staff_id = procs[q].staff_id
         /\ procs[p].start_time < procs[q].end_time
         /\ procs[q].start_time < procs[p].end_time)
        => ~(procs[p].pc = "committed" /\ procs[q].pc = "committed")

(* C3: CANCELLED, COMPLETED and NO_SHOW are terminal: no step changes the
   status of an appointment whose status is not SCHEDULED. *)
C3_TerminalStatusStays ==
    [][\A id \in Ids(appointments) :
          A(id).status # SCHEDULED => appointments'[id].status = A(id).status]_vars

(* C4: create rejects every request with end <= start, so that every
   appointment of every reachable state has end_time > start_time. *)
C4_EndAfterStart ==
    \A id \in Ids(appointments) : A(id).end_time > A(id).start_time

(* C5: create by a blocked client is rejected with the client-blocked error
   and adds no appointment whatever the staff's availability and bookings;
   create by a client who is not blocked never gets that error. *)
C5_BlockedClientRejected ==
    \A u \in Users, s \in StaffIds, st \in Times, en \in Times :
        LET r == Created(u, s, st, en)
        IN IF users[u].is_blocked
           THEN /\ r.resp = Resp("create", 403, "blocked")
                /\ r.appointments = appointments
                /\ r.users = users
           ELSE r.resp.detail # "blocked"

C5_Witness ==
    \E u \in Users, s \in StaffIds, st \in Times, en \in Times :
        /\ users[u].is_blocked
        /\ is_staff_available(appointments, availabilities, s, st, en)
        /\ Created(u, s, st, en).resp.detail = "blocked"

C6_WouldMark(u, id) == mark_appointment_no_show(appointments, users, u, id, now)

(* C6: a successful markNoShow raises the client's no_show_count by exactly
   1 and afterwards is_blocked holds exactly when the count is >= 3: from 2
   the client ends at 3, blocked, and every create of theirs is rejected as
   blocked; from 0 or 1 the client stays unblocked. *)
C6_NoShowCounts ==
    /\ \A u \in Users : users[u].is_blocked <=> users[u].no_show_count >= 3
    /\ \A u \in Users, id \in 1..MaxPolicyAppts :
          LET r == C6_WouldMark(u, id)
          IN r.resp.code = 200 =>
             LET c == A(id).client_id
                 before == users[c].no_show_count
             IN /\ r.users[c].no_show_count = before + 1
                /\ r.users[c].is_blocked <=> (before + 1 >= 3)
                /\ before = 2 =>
                      \A s \in StaffIds, st \in Times, en \in Times :
                          create_appointment(r.appointments, availabilities, r.users,
                                             c, s, st, en, NoNotes).resp
                              = Resp("create", 403, "blocked")
                /\ \A o \in Users \ {c} : r.users[o] = users[o]

C6_Witness ==
    \E c \in Users :
        /\ users[c].no_show_count = 3
        /\ users[c].is_blocked
        /\ Cardinality({id \in Ids(appointments) :
                           A(id).client_id = c /\ A(id).status = NO_SHOW}) = 3

(* C7: every no_show_count starts at 0 and no step decreases it; once
   is_blocked is true for a client no step clears it. *)
C7_NoShowMonotonic ==
    /\ \A u \in Users : users[u].no_show_count = 0
    /\ [][\A u \in Users :
             /\ users'[u].no_show_count >= users[u].no_show_count
             /\ users[u].is_blocked => users'[u].is_blocked]_vars

C7_Witness ==
    \E u \in Users, id \in Ids(appointments) :
        /\ users[u].no_show_count >= 2
        /\ A(id).client_id = u
        /\ A(id).status = SCHEDULED

C8_Marked(p) == procs[p].pc = "committed" /\ procs[p].op = "mark_no_show"

(* C8: when markNoShow calls on distinct appointments, served concurrently,
   have all ended, each client's no_show_count has grown by the number of
   those calls that committed for that client: no increment is lost. *)
C8_NoLostIncrement ==
    (/\ InFlight = {}
     /\ \A p, q \in Procs : (p # q /\ C8_Marked(p) /\ C8_Marked(q)) => procs[p].id # procs[q].id)
    => \A c \in Users :
          users[c].no_show_count =
              Cardinality({p \in Procs : C8_Marked(p) /\ procs[p].client_id = c})

\* no window of the staff member matches the date of st and covers [st, en]
C9_NoCoveringWindow(s, st, en) ==
    ~ \E i \in 1..Len(availabilities) :
        LET w == availabilities[i]
        IN /\ w.staff_id = s
           /\ \/ w.specific_date = st \div 24
              \/ (w.is_recurring /\ w.day_of_week = (st \div 24) % 7)
           /\ w.start_time <= st % 24
           /\ w.end_time >= en % 24

(* C9 as stated: create for a staff member with no matching availability
   window covering the requested range fails as 'staff unavailable' and
   adds no appointment, whether or not the staff has appointments. *)
C9_UnavailableAsStated ==
    \A u \in Users, s \in StaffIds, st \in Times, en \in Times :
        C9_NoCoveringWindow(s, st, en) =>
            /\ Created(u, s, st, en).resp = Resp("create", 400, "staff unavailable")
            /\ Created(u, s, st, en).appointments = appointments

(* C9 amended: such a create adds no appointment, and when the caller is not
   blocked it fails as 'staff unavailable' (a blocked caller gets the
   client-blocked error, which is checked first). *)
C9_UnavailableUnlessBlocked ==
    \A u \in Users, s \in StaffIds, st \in Times, en \in Times :
        C9_NoCoveringWindow(s, st, en) =>
            /\ Created(u, s, st, en).appointments = appointments
            /\ Created(u, s, st, en).resp =
                  IF users[u].is_blocked THEN Resp("create", 403, "blocked")
                  ELSE Resp("create", 400, "staff unavailable")

C9_Witness ==
    \E u \in Users, s \in StaffIds, st \in Times, en \in Times :
        /\ ~users[u].is_blocked
        /\ C9_NoCoveringWindow(s, st, en)
        /\ \E id \in Ids(appointments) : A(id).staff_id = s
        /\ ~OverlappingAppointment(appointments, s, st, en)
        /\ Created(u, s, st, en).resp = Resp("create", 400, "staff unavailable")

(* C10: on intervals with start < end, the three-clause test of create, the
   one of reschedule and the slot test each agree with
   candidateStart < existingEnd /\ existingStart < candidateEnd. *)
C10_OverlapTestsAgree ==
    (probe.done /\ probe.cs < probe.ce /\ probe.es < probe.ee) =>
        LET canonical == probe.cs < probe.ee /\ probe.es < probe.ce
        IN /\ probe.three = canonical
           /\ probe.resched = canonical
           /\ probe.slot = canonical

C10_Witness ==
    /\ probe.done
    /\ probe.cs < probe.ce /\ probe.es < probe.ee
    /\ probe.ee = probe.cs
    /\ ~probe.three /\ ~probe.resched /\ ~probe.slot

\* some window of the staff member matches the date of st and covers [st, en]
Covered(s, st, en) == ~C9_NoCoveringWindow(s, st, en)

\* no SCHEDULED appointment of the staff member other than id overlaps [st, en)
\* (every such appointment being an interval with start < end)
NoOtherOverlap(s, id, st, en) ==
    \A j \in Ids(appointments) \ {id} :
        (A(j).staff_id = s /\ A(j).status = SCHEDULED) =>
            /\ A(j).start_time < A(j).end_time
            /\ ~(st < A(j).end_time /\ A(j).start_time < en)

(* C11: on intervals with start < end the conflict test gives the same
   answer with its two intervals exchanged, and an interval that only
   touches a SCHEDULED appointment [a,b) (starting at b or ending at a) does
   not conflict with it: create of such an interval by a client who is not
   blocked succeeds when a window covers it and nothing else overlaps it. *)
C11_BackToBackAllowed ==
    \A id \in Ids(appointments), st \in Times, en \in Times :
        (A(id).start_time < A(id).end_time /\ st < en) =>
            /\ ThreeClauseOverlap(A(id).start_time, A(id).end_time, st, en)
                  = ThreeClauseOverlap(st, en, A(id).start_time, A(id).end_time)
            /\ (A(id).status = SCHEDULED /\ (st = A(id).end_time \/ en = A(id).start_time)) =>
                  /\ ~ThreeClauseOverlap(A(id).start_time, A(id).end_time, st, en)
                  /\ \A u \in Clients :
                        (/\ ~users[u].is_blocked
                         /\ Covered(A(id).staff_id, st, en)
                         /\ NoOtherOverlap(A(id).staff_id, id, st, en))
                        => Created(u, A(id).staff_id, st, en).resp.code = 200

C11_Witness ==
    \E i, j \in Ids(appointments) :
        /\ i < j
        /\ A(i).staff_id = A(j).staff_id
        /\ A(i).status = SCHEDULED /\ A(j).status = SCHEDULED
        /\ A(i).start_time < A(i).end_time /\ A(j).start_time < A(j).end_time
        /\ A(j).start_time = A(i).end_time
        /\ Covered(A(j).staff_id, A(j).start_time, A(j).end_time)

\* positions of the windows of staff member s that match date d
MatchingWindows(s, d) ==
    { i \in 1..Len(availabilities) :
        /\ availabilities[i].staff_id = s
        /\ \/ availabilities[i].specific_date = d
           \/ (availabilities[i].is_recurring /\ availabilities[i].day_of_week = d % 7) }

FreeSlots(s, d, dur) == get_available_slots(appointments, availabilities, s, d, dur)

\* the slots [s+k*dur, s+(k+1)*dur), k = 0..floor((e-s)/dur)-1, of window w on date d
C12_Expected(w, d, dur) ==
    [k \in 1..((w.end_time - w.start_time) \div dur) |->
        [start_time |-> d * 24 + w.start_time + (k - 1) * dur,
         end_time |-> d * 24 + w.start_time + k * dur]]

(* C12: for a staff member with a single window [s,e) matching the date and
   no SCHEDULED appointment, freeSlots with duration d returns exactly the
   floor((e-s)/d) slots [s+k*d, s+(k+1)*d) in order; for the window
   09:00-17:00 and one hour these are the 8 slots starting 09:00 .. 16:00. *)
C12_SlotsOfEmptyWindow ==
    \A s \in StaffIds, d \in SlotDates, dur \in SlotDurations :
        (/\ Cardinality(MatchingWindows(s, d)) = 1
         /\ \A id \in Ids(appointments) : ~(A(id).staff_id = s /\ A(id).status = SCHEDULED))
        => LET w == availabilities[CHOOSE i \in MatchingWindows(s, d) : TRUE]
           IN /\ FreeSlots(s, d, dur) = C12_Expected(w, d, dur)
              /\ (w.start_time = 9 /\ w.end_time = 17 /\ dur = 1) =>
                    /\ Len(FreeSlots(s, d, dur)) = 8
                    /\ \A k \in 1..8 :
                          /\ FreeSlots(s, d, dur)[k].start_time = d * 24 + 8 + k
                          /\ FreeSlots(s, d, dur)[k].end_time = d * 24 + 9 + k

C12_Witness ==
    /\ probe.done
    /\ probe.slot_duration = 1
    /\ Cardinality(MatchingWindows(probe.staff_id, probe.date)) = 1
    /\ \A id \in Ids(appointments) : A(id).staff_id # probe.staff_id
    /\ probe.slots = FreeSlots(probe.staff_id, probe.date, 1)
    /\ Len(probe.slots) = 8

SlotTimes == {2, 3, 4, 5, 10, 11}

(* C13: after a successful create of the interval I for a staff member,
   freeSlots for that staff member, any date and any duration returns the
   slots it returned before the booking without those that overlap I, in
   the same order; booking 10:00-11:00 in a 09:00-17:00 window removes the
   10:00 one-hour slot only. *)
C13_BookingRemovesItsSlots ==
    \A u \in Clients, s \in StaffIds, st \in SlotTimes, en \in SlotTimes :
        Created(u, s, st, en).resp.code = 200 =>
            \A d \in SlotDates, dur \in SlotDurations :
                get_available_slots(Created(u, s, st, en).appointments, availabilities, s, d, dur)
                  = SelectSeq(FreeSlots(s, d, dur),
                              LAMBDA x : ~(st < x.end_time /\ x.start_time < en))

C13_Witness ==
    /\ probe.done /\ probe.slot_duration = 1 /\ probe.date = 0
    /\ Len(appointments) > 0
    /\ A(Len(appointments)) = NewAppointment("c2", probe.staff_id, 10, 11, NoNotes)
    /\ probe.slots = FreeSlots(probe.staff_id, 0, 1)
    /\ Len(probe.slots) = 7
    /\ probe.slots[1].start_time = 9 /\ probe.slots[2].start_time = 11

(* C14: every slot returned by freeSlots(staff, date, d) has length exactly
   d, lies inside some availability window of that staff member matching
   the date, and overlaps no appointment of that staff member that is
   SCHEDULED at the time of the call. *)
C14_SlotsAreFree ==
    \A s \in StaffIds, d \in SlotDates, dur \in SlotDurations :
        \A k \in 1..Len(FreeSlots(s, d, dur)) :
            LET x == FreeSlots(s, d, dur)[k]
            IN /\ x.end_time - x.start_time = dur
               /\ \E i \in MatchingWindows(s, d) :
                     /\ d * 24 + availabilities[i].start_time <= x.start_time
                     /\ x.end_time <= d * 24 + availabilities[i].end_time
               /\ \A id \in Ids(appointments) :
                     (A(id).staff_id = s /\ A(id).status = SCHEDULED) =>
                         ~(x.start_time < A(id).end_time /\ A(id).start_time < x.end_time)

C14_Witness ==
    /\ probe.done
    /\ probe.slots = FreeSlots(probe.staff_id, probe.date, probe.slot_duration)
    /\ probe.slots # <<>>
    /\ Len(probe.slots) < Len(get_available_slots(<<>>, availabilities, probe.staff_id,
                                                  probe.date, probe.slot_duration))
    /\ \E id \in Ids(appointments) :
          /\ A(id).staff_id = probe.staff_id
          /\ A(id).status = CANCELLED
          /\ \E k \in 1..Len(probe.slots) :
                probe.slots[k].start_time < A(id).end_time
                    /\ A(id).start_time < probe.slots[k].end_time

Rescheduled(u, id, st, en) ==
    reschedule_appointment(appointments, availabilities, users, u, id, st, en, <<>>, now)

\* u is the client or the staff member of appointment id, or an administrator
Party(u, id) == u \in Admins \/ u = A(id).client_id \/ u = A(id).staff_id

\* the case of C15 for appointment id
C15_Case(id) ==
    /\ A(id).status = SCHEDULED
    /\ A(id).start_time < A(id).end_time
    /\ A(id).start_time - now >= 2
    /\ Covered(A(id).staff_id, A(id).start_time, A(id).end_time)
    /\ NoOtherOverlap(A(id).staff_id, id, A(id).start_time, A(id).end_time)

(* C15: reschedule of a SCHEDULED appointment to exactly its current start
   and end, outside the cutoff, with a covering window and no other
   appointment overlapping, succeeds: the appointment does not conflict with
   itself. *)
C15_RescheduleToSameTimes ==
    \A id \in Ids(appointments), u \in Users :
        (Party(u, id) /\ C15_Case(id)) =>
            /\ Rescheduled(u, id, A(id).start_time, A(id).end_time).resp.code = 200
            /\ Rescheduled(u, id, A(id).start_time, A(id).end_time).appointments = appointments

C15_Witness ==
    \E id, j \in Ids(appointments) :
        /\ C15_Case(id)
        /\ j # id /\ A(j).staff_id = A(id).staff_id /\ A(j).status = SCHEDULED
        /\ Rescheduled(A(id).client_id, id, A(id).start_time, A(id).end_time).resp.code = 200

Updated(u, id, patch) == update_appointment(appointments, users, u, id, patch, now)

(* C16: update and reschedule of an appointment whose current start is less
   than 2 hours after now are rejected with a policy error (the cutoff; for
   reschedule of an appointment that is not SCHEDULED, its status) and
   change nothing, whatever start the request asks for; when the current
   start is 2 hours or more after now, neither is rejected by the cutoff. *)
C16_CutoffOnCurrentStart ==
    \A id \in Ids(appointments), u \in Users, patch \in Patches, m \in Moves :
        IF A(id).start_time - now < 2
        THEN /\ Updated(u, id, patch).appointments = appointments
             /\ Updated(u, id, patch).users = users
             /\ Rescheduled(u, id, m[1], m[2]).appointments = appointments
             /\ Rescheduled(u, id, m[1], m[2]).users = users
             /\ Party(u, id) =>
                   /\ Updated(u, id, patch).resp = Resp("update", 400, "cutoff")
                   /\ Rescheduled(u, id, m[1], m[2]).resp =
                         Resp("reschedule", 400,
                              IF A(id).status = SCHEDULED THEN "cutoff" ELSE "status")
        ELSE /\ Updated(u, id, patch).resp.detail # "cutoff"
             /\ Rescheduled(u, id, m[1], m[2]).resp.detail # "cutoff"
             /\ Party(u, id) => Updated(u, id, patch).resp.code = 200

C16_Witness ==
    \E i, j \in Ids(appointments) :
        /\ A(i).status = SCHEDULED /\ A(j).status = SCHEDULED
        /\ A(i).start_time - now = 1
        /\ A(j).start_time - now = 2
        /\ Updated(A(i).client_id, i, [start_time |-> 3, end_time |-> 4]).resp.detail = "cutoff"
        /\ Rescheduled(A(i).client_id, i, 3, 4).resp.detail = "cutoff"
        /\ Updated(A(j).client_id, j, [status |-> CANCELLED]).resp.code = 200
        /\ Rescheduled(A(j).client_id, j, A(j).start_time, A(j).end_time).resp.code = 200

MarkedNoShow(u, id) == mark_appointment_no_show(appointments, users, u, id, now)

MarkedCompleted(u, id) == mark_appointment_completed(appointments, users, u, id, now)

(* C17: markCompleted and markNoShow succeed only on an appointment that is
   SCHEDULED and has started (now >= start_time); on one that is not
   SCHEDULED or starts after now they are rejected, and the statuses, the
   no_show_counts and the is_blocked flags stay as they are. *)
C17_MarkPreconditions ==
    \A id \in Ids(appointments), u \in Users :
        /\ MarkedNoShow(u, id).resp.code = 200 =>
              (A(id).status = SCHEDULED /\ now >= A(id).start_time)
        /\ MarkedCompleted(u, id).resp.code = 200 =>
              (A(id).status = SCHEDULED /\ now >= A(id).start_time)
        /\ (A(id).status # SCHEDULED \/ A(id).start_time > now) =>
              /\ MarkedNoShow(u, id).resp.code # 200
              /\ MarkedNoShow(u, id).appointments = appointments
              /\ MarkedNoShow(u, id).users = users
              /\ MarkedCompleted(u, id).resp.code # 200
              /\ MarkedCompleted(u, id).appointments = appointments
              /\ MarkedCompleted(u, id).users = users

C17_Witness ==
    \E i, j \in Ids(appointments) :
        /\ A(i).status = NO_SHOW /\ users[A(i).client_id].no_show_count = 1
        /\ MarkedNoShow(A(i).staff_id, i).resp = Resp("mark_no_show", 400, "status")
        /\ MarkedCompleted(A(i).staff_id, i).resp = Resp("mark_completed", 400, "status")
        /\ A(j).status = SCHEDULED /\ A(j).start_time = now + 1
        /\ MarkedNoShow(A(j).staff_id, j).resp = Resp("mark_no_show", 400, "future")
        /\ MarkedCompleted(A(j).staff_id, j).resp = Resp("mark_completed", 400, "future")

Reasons == { <<>>, <<"moved">> }

(* C18: reschedule succeeds only on an appointment whose status is
   SCHEDULED; on a CANCELLED, COMPLETED or NO_SHOW appointment it is
   rejected (for an authorized caller, naming the status) and start_time,
   end_time, notes and status stay unchanged. *)
C18_RescheduleOnlyScheduled ==
    \A id \in Ids(appointments), u \in Users, m \in Moves, reason \in Reasons :
        LET r == reschedule_appointment(appointments, availabilities, users,
                                        u, id, m[1], m[2], reason, now)
        IN /\ r.resp.code = 200 => A(id).status = SCHEDULED
           /\ A(id).status # SCHEDULED =>
                 /\ r.resp.code # 200
                 /\ r.appointments[id] = A(id)
                 /\ Party(u, id) => r.resp = Resp("reschedule", 400, "status")

C18_Witness ==
    \E id \in Ids(appointments), m \in Moves :
        /\ A(id).status \in {CANCELLED, COMPLETED, NO_SHOW}
        /\ A(id).start_time - now >= 2
        /\ Covered(A(id).staff_id, m[1], m[2])
        /\ NoOtherOverlap(A(id).staff_id, id, m[1], m[2])
        /\ Rescheduled(A(id).client_id, id, m[1], m[2]).resp = Resp("reschedule", 400, "status")

\* the response left the stored state as it was
Untouched(r) == r.appointments = appointments /\ r.users = users

RequestIds == 1..(MaxPolicyAppts + 1)

(* C19: every create, update, reschedule, markCompleted or markNoShow call
   that is rejected (not found, permission, blocked client, cutoff, wrong
   status, future appointment, conflict, outside availability) leaves the
   stored state unchanged: no appointment is added or modified and no
   no_show_count or is_blocked changes. *)
C19_RejectedCallsChangeNothing ==
    /\ \A u \in Users, s \in StaffIds, st \in Times, en \in Times :
          Created(u, s, st, en).resp.code # 200 => Untouched(Created(u, s, st, en))
    /\ \A u \in Users, id \in RequestIds :
          /\ \A patch \in Patches :
                Updated(u, id, patch).resp.code # 200 => Untouched(Updated(u, id, patch))
          /\ \A st \in Times, en \in Times :
                Rescheduled(u, id, st, en).resp.code # 200 => Untouched(Rescheduled(u, id, st, en))
          /\ MarkedNoShow(u, id).resp.code # 200 => Untouched(MarkedNoShow(u, id))
          /\ MarkedCompleted(u, id).resp.code # 200 => Untouched(MarkedCompleted(u, id))

C19_Witness ==
    \E c \in Clients, i \in Ids(appointments) :
        /\ Created(c, "s1", 2, 3).resp.detail = "blocked"
        /\ \E o \in Clients : Created(o, "s1", 5, 6).resp.detail = "staff unavailable"
        /\ Updated("s2", i, [status |-> CANCELLED]).resp.detail = "permissions"
        /\ Updated(c, i, [status |-> CANCELLED]).resp.detail = "cutoff"
        /\ MarkedNoShow("s1", i).resp.detail = "status"
        /\ MarkedCompleted("c1", i).resp.detail = "privileges"
        /\ Rescheduled("adm", i, 3, 4).resp.detail = "status"
        /\ Rescheduled("adm", Len(appointments) + 1, 2, 3).resp.detail = "not found"

\* the response r put appointment id into COMPLETED or NO_SHOW
C20_Marks(r, id) ==
    /\ r.appointments[id].status \in {COMPLETED, NO_SHOW}
    /\ r.appointments[id].status # A(id).status

(* C20: an appointment becomes COMPLETED or NO_SHOW only through a call of
   the staff member assigned to it or of an administrator: no call by its
   client, by another staff member or by an unrelated user puts it into
   COMPLETED or NO_SHOW. *)
C20_OnlyStaffOrAdminMarks ==
    \A id \in Ids(appointments), u \in Users :
        (u \notin Admins /\ u # A(id).staff_id) =>
            /\ ~C20_Marks(MarkedNoShow(u, id), id)
            /\ ~C20_Marks(MarkedCompleted(u, id), id)
            /\ \A m \in Moves : ~C20_Marks(Rescheduled(u, id, m[1], m[2]), id)
            /\ \A patch \in Patches : ~C20_Marks(Updated(u, id, patch), id)

Listed(u, skip, limit) == read_appointments(appointments, u, skip, limit)

\* the ids in a response
ListedIds(rows) == { rows[k] : k \in 1..Len(rows) }

(* C21: listAppointments returns to a CLIENT caller the appointments whose
   client_id is the caller and no other, to a STAFF caller those whose
   staff_id is the caller and no other, to an ADMIN caller all of them;
   a page of the list never holds an appointment that belongs to neither
   side of a non-admin caller. *)
C21_ListIsFiltered ==
    \A u \in Users :
        /\ ListedIds(Listed(u, 0, 100)) =
              { id \in Ids(appointments) :
                  \/ u \in Admins
                  \/ (u \in Clients /\ A(id).client_id = u)
                  \/ (u \in StaffIds /\ A(id).staff_id = u) }
        /\ \A pg \in ListPages :
              /\ ListedIds(Listed(u, pg[1], pg[2])) \subseteq ListedIds(Listed(u, 0, 100))
              /\ u \notin Admins =>
                    \A id \in ListedIds(Listed(u, pg[1], pg[2])) :
                        A(id).client_id = u \/ A(id).staff_id = u

C21_Witness ==
    /\ probe.done
    /\ probe.caller = "s1" /\ probe.skip = 0
    /\ probe.rows = Listed("s1", 0, 100)
    /\ probe.rows # <<>>
    /\ \E id \in Ids(appointments) : A(id).client_id = "s1" /\ id \notin ListedIds(probe.rows)
    /\ \E id \in Ids(appointments) : A(id).staff_id = "s2" /\ A(id).client_id = "c1"
    /\ Len(Listed("adm", 0, 100)) = 3

(* C22: appointments are never removed: over every step the appointment ids
   of the state before are ids of the state after, and each such
   appointment keeps its client_id and staff_id (update, reschedule and
   cancellation change the same record in place). *)
C22_AppointmentsStay ==
    [][/\ Len(appointments') >= Len(appointments)
       /\ \A id \in Ids(appointments) :
             /\ appointments'[id].client_id = A(id).client_id
             /\ appointments'[id].staff_id = A(id).staff_id]_vars

C22_Witness ==
    \E i, j \in Ids(appointments) :
        /\ i < j
        /\ A(i).status = CANCELLED
        /\ A(j).status = SCHEDULED
        /\ A(j).staff_id = A(i).staff_id
        /\ A(j).start_time = A(i).start_time /\ A(j).end_time = A(i).end_time

\* starts and ends asked for: inside the windows, and on a day without windows
MoveTimes == {2, 3, 4, HoursPerDay + 3}

\* the appointments with appointment id left out of the SCHEDULED ones
WithoutAppointment(id) == [appointments EXCEPT ![id].status = CANCELLED]

\* no SCHEDULED appointment of staff member s other than id overlaps [st, en)
C23_Free(s, id, st, en) ==
    \A j \in Ids(appointments) \ {id} :
        (A(j).staff_id = s /\ A(j).status = SCHEDULED) =>
            ~(st < A(j).end_time /\ A(j).start_time < en)

(* C23: a create or a reschedule served alone commits its interval only if
   the interval overlaps no other SCHEDULED appointment of the staff member
   and a window matching the new date covers it; reschedule decides by the
   same two checks as create (it succeeds exactly when a create of the
   interval would find the staff member available were the appointment
   itself not there), and a rejected reschedule leaves the appointment as
   it was. *)
C23_SameChecksAsCreate ==
    /\ \A u \in Users, s \in StaffIds, st \in MoveTimes, en \in MoveTimes :
          Created(u, s, st, en).resp.code = 200 =>
              (Covered(s, st, en) /\ C23_Free(s, 0, st, en))
    /\ \A id \in Ids(appointments), st \in MoveTimes, en \in MoveTimes :
          LET free == C23_Free(A(id).staff_id, id, st, en)
              covered == Covered(A(id).staff_id, st, en)
              available == is_staff_available(WithoutAppointment(id), availabilities,
                                              A(id).staff_id, st, en)
          IN \A u \in Users :
                LET r == Rescheduled(u, id, st, en)
                IN /\ r.resp.code = 200 => (covered /\ free)
                   /\ (Party(u, id) /\ A(id).status = SCHEDULED /\ A(id).start_time - now >= 2)
                         => (r.resp.code = 200 <=> available)
                   /\ r.resp.code # 200 => r.appointments = appointments

C23_Witness ==
    \E id, j \in Ids(appointments) :
        /\ j # id /\ A(j).staff_id = A(id).staff_id /\ A(j).status = SCHEDULED
        /\ A(id).start_time = 2 /\ A(id).end_time = 3
        /\ A(j).start_time = 3 /\ A(j).end_time = 4
        /\ Rescheduled("adm", id, 2, 4).resp.detail = "staff unavailable"
        /\ Rescheduled("adm", id, HoursPerDay + 3, HoursPerDay + 3).resp.detail = "outside availability"
        /\ Rescheduled("adm", id, 2, 3).resp.code = 200

(* C24: the no-show counter changes only together with a transition to
   NO_SHOW: in every reachable state each client's no_show_count is the
   number of that client's appointments whose status is NO_SHOW. *)
C24_CountIsNumberOfNoShows ==
    \A c \in Users :
        users[c].no_show_count =
            Cardinality({ id \in Ids(appointments) :
                            A(id).client_id = c /\ A(id).status = NO_SHOW })

\* patches asked for: those of the lifecycle, and patches of the notes
C25_Patches ==
    Patches \cup { [notes |-> <<"late">>], [notes |-> <<"late">>, status |-> CANCELLED],
                   [end_time |-> 4] }

(* C25: a successful update sets exactly the fields present in the patch
   (among start_time, end_time, notes, status) to the values of the patch
   and leaves every absent field of the appointment, every other
   appointment and every no-show record unchanged. *)
C25_UpdateSetsPatchOnly ==
    \A id \in Ids(appointments), u \in Users, patch \in C25_Patches :
        LET r == Updated(u, id, patch)
        IN r.resp.code = 200 =>
              /\ Len(r.appointments) = Len(appointments)
              /\ \A f \in {"start_time", "end_time", "notes", "status", "client_id", "staff_id"} :
                    r.appointments[id][f] = IF f \in DOMAIN patch THEN patch[f] ELSE A(id)[f]
              /\ \A j \in Ids(appointments) \ {id} : r.appointments[j] = A(j)
              /\ r.users = users

C25_Witness ==
    \E id, j \in Ids(appointments) :
        /\ j # id
        /\ A(id).status = CANCELLED
        /\ A(id).start_time = 2 /\ A(id).end_time = 3 /\ A(id).notes = NoNotes
        /\ A(j).status = SCHEDULED
        /\ Updated(A(j).client_id, j, [start_time |-> 2]).resp.code = 200

\* patches that change the time range
C26_TimePatches == { [start_time |-> 2], [start_time |-> 3, end_time |-> 4], [end_time |-> 4],
                     [start_time |-> HoursPerDay + 3] }

(* C26: update with a patch that changes start_time and/or end_time is
   committed whenever the caller is authorized and the cutoff is respected,
   whatever the other appointments and the windows are, whereas reschedule
   commits an interval only when no other SCHEDULED appointment of the staff
   member overlaps it and a window covers it. *)
C26_UpdateSkipsTheChecks ==
    \A id \in Ids(appointments), u \in Users :
        /\ \A patch \in C26_TimePatches :
              (Party(u, id) /\ A(id).start_time - now >= 2) =>
                  /\ Updated(u, id, patch).resp.code = 200
                  /\ \A f \in DOMAIN patch : Updated(u, id, patch).appointments[id][f] = patch[f]
        /\ \A st \in MoveTimes, en \in MoveTimes :
              Rescheduled(u, id, st, en).resp.code = 200 =>
                  (Covered(A(id).staff_id, st, en) /\ C23_Free(A(id).staff_id, id, st, en))

C26_Witness ==
    \E i, j \in Ids(appointments) :
        /\ i # j /\ A(i).staff_id = A(j).staff_id
        /\ A(i).status = SCHEDULED /\ A(j).status = SCHEDULED
        /\ A(i).start_time = 2 /\ A(i).end_time = 3
        /\ A(j).start_time = 2 /\ A(j).end_time = 4
        /\ Rescheduled("adm", j, 2, 4).resp.detail = "staff unavailable"
        /\ Updated("adm", j, [start_time |-> HoursPerDay + 3]).resp.code = 200
        /\ Rescheduled("adm", j, HoursPerDay + 3, HoursPerDay + 4).resp.code # 200

\* the slots of window w on date d that overlap no SCHEDULED appointment of s
FreeOfWindow(s, w, d, dur) ==
    SelectSeq(C12_Expected(w, d, dur), LAMBDA x : C23_Free(s, 0, x.start_time, x.end_time))

(* C27: the windows applying to a staff member on a date are those of that
   staff member with that specific_date together with the recurring ones of
   that weekday, none taking precedence: a create that meets no conflict
   succeeds exactly when some window of either kind covers it, freeSlots
   holds the free slots of every such window, and when no window matches
   freeSlots is empty. *)
C27_WindowsAreUnited ==
    /\ \A u \in Clients, s \in StaffIds, st \in SlotTimes, en \in SlotTimes :
          (~users[u].is_blocked /\ ~OverlappingAppointment(appointments, s, st, en)) =>
              (Created(u, s, st, en).resp.code = 200
                 <=> \E i \in MatchingWindows(s, st \div 24) :
                        /\ availabilities[i].start_time <= st % 24
                        /\ availabilities[i].end_time >= en % 24)
    /\ \A s \in StaffIds, d \in SlotDates, dur \in SlotDurations :
          /\ MatchingWindows(s, d) = {} => FreeSlots(s, d, dur) = <<>>
          /\ \A i \in MatchingWindows(s, d) :
                \A k \in 1..Len(FreeOfWindow(s, availabilities[i], d, dur)) :
                    \E n \in 1..Len(FreeSlots(s, d, dur)) :
                        FreeSlots(s, d, dur)[n] = FreeOfWindow(s, availabilities[i], d, dur)[k]

C27_Witness ==
    /\ \E i, j \in MatchingWindows("s1", 0) :
          /\ availabilities[i].specific_date = 0 /\ availabilities[i].start_time = 3
          /\ availabilities[j].is_recurring /\ availabilities[j].start_time = 2
    /\ \E id \in Ids(appointments) :
          A(id) = NewAppointment("c1", "s1", 2, 4, NoNotes)
    /\ probe.done /\ probe.staff_id = "s1" /\ probe.date = 1 /\ probe.slots = <<>>
    /\ FreeSlots("s1", 1, probe.slot_duration) = <<>>

\* the free slots of the matching windows from position i on, window after window
RECURSIVE C28_Concatenated(_, _, _, _)
C28_Concatenated(i, s, d, dur) ==
    IF i > Len(availabilities) THEN <<>>
    ELSE (IF i \in MatchingWindows(s, d)
          THEN FreeOfWindow(s, availabilities[i], d, dur) ELSE <<>>)
         \o C28_Concatenated(i + 1, s, d, dur)

(* C28: the freeSlots result is the concatenation, in window order, of the
   free slots of each matching window in increasing start time, with no
   de-duplication: a free slot that two overlapping windows both give
   appears once per window. *)
C28_SlotsInWindowOrder ==
    \A s \in StaffIds, d \in SlotDates, dur \in SlotDurations :
        FreeSlots(s, d, dur) = C28_Concatenated(1, s, d, dur)

C28_Witness ==
    /\ probe.done
    /\ probe.slots = FreeSlots(probe.staff_id, probe.date, probe.slot_duration)
    /\ \E k, n \in 1..Len(probe.slots) :
          /\ k + 1 < n
          /\ probe.slots[k] = probe.slots[n]
          /\ probe.slots[k + 1].start_time > probe.slots[n].start_time
    /\ \E id \in Ids(appointments) :
          A(id).staff_id = probe.staff_id /\ A(id).status = SCHEDULED

(* C29: only SCHEDULED appointments of the same staff member count as
   conflicts: a create or a reschedule of an interval that a window covers
   and that no other SCHEDULED appointment of the staff member overlaps
   succeeds, whatever appointments other staff members have and whatever
   CANCELLED, COMPLETED or NO_SHOW appointments the staff member has, so an
   interval freed by cancellation can be booked again. *)
C29_OnlyScheduledOfStaffConflict ==
    \A st \in MoveTimes, en \in MoveTimes :
        st < en =>
          /\ \A u \in Clients, s \in StaffIds :
                (~users[u].is_blocked /\ Covered(s, st, en) /\ NoOtherOverlap(s, 0, st, en))
                => Created(u, s, st, en).resp.code = 200
          /\ \A id \in Ids(appointments), u \in Users :
                (/\ Party(u, id) /\ A(id).status = SCHEDULED /\ A(id).start_time - now >= 2
                 /\ Covered(A(id).staff_id, st, en)
                 /\ NoOtherOverlap(A(id).staff_id, id, st, en))
                => Rescheduled(u, id, st, en).resp.code = 200

C29_Witness ==
    \E i, j \in Ids(appointments) :
        /\ i < j
        /\ A(i).staff_id = A(j).staff_id
        /\ A(i).status \in {CANCELLED, COMPLETED, NO_SHOW}
        /\ A(j).status = SCHEDULED
        /\ A(i).start_time < A(i).end_time /\ A(j).start_time < A(j).end_time
        /\ A(i).start_time < A(j).end_time /\ A(j).start_time < A(i).end_time
        /\ A(j).start_time - now >= 2
        /\ Rescheduled("adm", j, A(i).start_time, A(i).end_time).resp.code = 200

(* C30: the free-slot view and the booking check agree: in every reachable
   state, each slot returned by freeSlots(S, D, d) is accepted by a create
   for staff member S with the start and end of the slot, issued in that
   state by a client who is not blocked. *)
C30_SlotsCanBeBooked ==
    \A s \in StaffIds, d \in SlotDates, dur \in SlotDurations :
        \A k \in 1..Len(FreeSlots(s, d, dur)) :
            \A u \in Clients :
                ~users[u].is_blocked =>
                    Created(u, s, FreeSlots(s, d, dur)[k].start_time,
                            FreeSlots(s, d, dur)[k].end_time).resp.code = 200

\* [st, en] lies on one calendar date, inside a window of s that matches the date
C31_InsideOneWindow(s, st, en) ==
    /\ st \div 24 = en \div 24
    /\ \E i \in MatchingWindows(s, st \div 24) :
          /\ (st \div 24) * 24 + availabilities[i].start_time <= st
          /\ en <= (st \div 24) * 24 + availabilities[i].end_time

(* C31: every interval committed by create or reschedule lies wholly inside
   one availability window of its staff member on a single calendar date:
   start and end fall on the same date, between the start and the end of
   the window on that date; an interval that crosses midnight or spans
   several days is never accepted. *)
C31_CommittedInsideOneWindow ==
    \A s \in StaffIds, st \in MoveTimes, en \in MoveTimes :
        /\ \A u \in Users :
              Created(u, s, st, en).resp.code = 200 => C31_InsideOneWindow(s, st, en)
        /\ \A id \in Ids(appointments), u \in Users :
              (A(id).staff_id = s /\ Rescheduled(u, id, st, en).resp.code = 200)
              => C31_InsideOneWindow(s, st, en)

(* C32: time only moving forward, an appointment enters COMPLETED or NO_SHOW
   only at a moment when now >= its start_time: no step (an update with a
   status in the patch included) puts an appointment that has not yet
   started into COMPLETED or NO_SHOW. *)
C32_MarkedOnlyOnceStarted ==
    [][/\ now' >= now
       /\ \A id \in Ids(appointments) :
             (/\ appointments'[id].status \in {COMPLETED, NO_SHOW}
              /\ appointments'[id].status # A(id).status)
             => now >= A(id).start_time]_vars

\* the appointments on which a no-show marking for client c has committed
C33_NoShowCommitted(c) ==
    { procs[p].id : p \in { q \in Procs : /\ procs[q].pc = "committed"
                                          /\ procs[q].op = "mark_no_show"
                                          /\ procs[q].client_id = c } }

(* C33: markings of the same SCHEDULED appointment being served at the same
   time (status read, counter read and commit interleaving), at most one of
   them commits a transition of that appointment, and the no_show_count of
   the client grows by at most 1 for each appointment marked. *)
C33_OneTransitionOneCount ==
    /\ \A p \in Procs, q \in Procs :
          (/\ p # q
           /\ procs[p].pc = "committed" /\ procs[q].pc = "committed"
           /\ procs[p].op \in {"mark_no_show", "mark_completed"}
           /\ procs[q].op \in {"mark_no_show", "mark_completed"})
          => procs[p].id # procs[q].id
    /\ \A c \in Clients :
          users[c].no_show_count <= Cardinality(C33_NoShowCommitted(c))

\* appointment id has been SCHEDULED with its present start since 25 hours
\* before the start or earlier, and it is now 23 hours before the start or later
C34_Due(id) ==
    /\ A(id).status = SCHEDULED
    /\ probe.since[id] # None
    /\ probe.since[id] <= 2 * (A(id).start_time - 25)
    /\ utcnow >= 2 * (A(id).start_time - 23)

(* C34: the job firing once an hour and selecting the SCHEDULED appointments
   with start_time in [now+23h, now+25h], an appointment that stays SCHEDULED
   with the same start_time from 25 hours to 23 hours before its start has
   been selected by a run of the job in that time, and every appointment a
   run selects is SCHEDULED when the run reads the table. *)
C34_StableAppointmentReminded ==
    /\ \A id \in Ids(appointments) : C34_Due(id) => id \in probe.reminded
    /\ \A id \in probe.selected : id \in Ids(appointments) /\ A(id).status = SCHEDULED

\* a run has selected an appointment that is due while the other appointment, whose
\* start lies in the window of the run, is cancelled and was not selected
C34_Witness ==
    \E id \in Ids(appointments), other \in Ids(appointments) :
        /\ C34_Due(id) /\ id \in probe.selected /\ id \in probe.reminded
        /\ other # id
        /\ A(other).status = CANCELLED
        /\ 2 * A(other).start_time >= utcnow + 2 * 23
        /\ 2 * A(other).start_time <= utcnow + 2 * 25
        /\ other \notin probe.selected

=============================================================================
